---- MODULE Spec2Model ----
(***************************************************************************)
(* A model of glores (src/glores.py): the two commands `update` (capture)  *)
(* and `apply` (restore) over a workspace of git repositories, the helpers *)
(* they share (find_git_repos, get_repo_info, read_glores_yaml,            *)
(* write_glores_yaml), and the parts of the environment they read or       *)
(* change: the directory tree, each repository's HEAD, and the snapshot    *)
(* file .git/glores.yaml of each repository.                               *)
(*                                                                         *)
(* A directory is the sequence of names leading to it from the workspace   *)
(* root (<<>> is the workspace root itself).  A path handed to the tool is *)
(* a directory together with the way it was written on the command line:   *)
(* "dot" when it was written "." (the current directory), "named" when it  *)
(* was written with the directory's own name as its last component.        *)
(***************************************************************************)
EXTENDS Integers, Sequences, FiniteSets, TLC

VARIABLES git,       \* the directories that directly contain a .git directory
          bare,      \* the repositories whose configuration says core.bare
          head,      \* head[d]: the commit checked out in repository d
          attached,  \* attached[d]: HEAD of d is on a branch (not detached)
          has,       \* has[d]: the commits present locally in d
          file,      \* file[d]: d/.git/glores.yaml
          out,       \* the lines printed by the last command
          result,    \* how the last command ended
          last,      \* the last step taken: command, arguments, prior file
          cap,       \* cap[d]: the workspace as it was when d's file was captured
          nops,      \* number of steps taken
          found,     \* the last result of find_git_repos (discovery runs)
          wpc, wcfg, wpos, wold, seen   \* a save in progress and a reader

vars == <<git, bare, head, attached, has, file, out, result, last, cap, nops,
          found, wpc, wcfg, wpos, wold, seen>>

-----------------------------------------------------------------------------
(* Bounds *)

MaxDepth == 2     \* depth of the directory tree below the workspace root
MaxOps == 3       \* steps (commands and changes by the user) in one run
MaxEntries == 1   \* ws-status entries of the snapshots of the save runs

Names == {"A", "B"}
NameOrder == <<"A", "B">>     \* the order in which a directory lists its children
Commits == {"c1", "c2"}

Dirs == UNION {[1..n -> Names] : n \in 0..MaxDepth}

\* The workspaces of the command runs: two siblings; the workspace root itself
\* a repository; a repository nested in another, with a name used twice.
Layouts == { {<<"A">>, <<"B">>},
             {<<>>, <<"A">>},
             {<<"A">>, <<"B">>, <<"B", "A">>} }

Forms == {"dot", "named"}

-----------------------------------------------------------------------------
(* Paths and names *)

MkPath(form, d) == [form |-> form, dir |-> d]

\* The name of the directory itself, as a path ending in it spells it.
RealName(d) == IF d = <<>> THEN "ws" ELSE d[Len(d)]

\* pathlib: Path(p).name; Path(".").name is the empty string.
PathName(p) == IF p.form = "dot" THEN "" ELSE RealName(p.dir)

\* str(p).split('/')[-1]; str(Path(".")) is ".".
SplitName(p) == IF p.form = "dot" THEN "." ELSE RealName(p.dir)

\* The URL of the first remote; the workspace root has no remote.
Url(d) == IF d = <<>> THEN "" ELSE IF RealName(d) = "A" THEN "uA" ELSE "uB"

Range(s) == {s[i] : i \in 1..Len(s)}

-----------------------------------------------------------------------------
(* find_git_repos *)

RECURSIVE os_walk(_), walk_children(_, _)
\* os.walk, top-down: a directory, then the walk of each of its children.
os_walk(d) == <<d>> \o walk_children(d, 1)
walk_children(d, i) ==
    IF Len(d) >= MaxDepth \/ i > Len(NameOrder) THEN <<>>
    ELSE os_walk(Append(d, NameOrder[i])) \o walk_children(d, i + 1)

RECURSIVE os_walk_pruned(_, _), walk_children_pruned(_, _, _)
\* A walk that does not descend below a directory that has a marker.
os_walk_pruned(d, g) ==
    <<d>> \o (IF d \in g THEN <<>> ELSE walk_children_pruned(d, 1, g))
walk_children_pruned(d, i, g) ==
    IF Len(d) >= MaxDepth \/ i > Len(NameOrder) THEN <<>>
    ELSE os_walk_pruned(Append(d, NameOrder[i]), g)
         \o walk_children_pruned(d, i + 1, g)

\* The path os.walk gives for directory d under a workspace written wsForm:
\* only the top of the walk can be ".", "./A" is the path "A".
WalkPath(wsForm, d) == MkPath(IF d = <<>> THEN wsForm ELSE "named", d)

RECURSIVE collect(_, _, _, _)
collect(w, i, wsForm, g) ==
    IF i > Len(w) THEN <<>>
    ELSE (IF w[i] \in g THEN <<WalkPath(wsForm, w[i])>> ELSE <<>>)
         \o collect(w, i + 1, wsForm, g)

find_git_repos_pruned(wsForm, g) == collect(os_walk_pruned(<<>>, g), 1, wsForm, g)

find_git_repos(wsForm, g) == collect(os_walk(<<>>), 1, wsForm, g)

-----------------------------------------------------------------------------
(* get_repo_info *)

Record(name, d, branch) ==
    [name |-> name, url |-> Url(d), branch |-> branch, commit_hash |-> head[d]]

\* An inspector that reports a detached HEAD under a default branch name.
get_repo_info_default(p) ==
    <<Record(PathName(p), p.dir, IF attached[p.dir] THEN "main" ELSE "HEAD")>>

\* The record of the repository at p, as a sequence of one; <<>> is None:
\* repo.active_branch raises when HEAD is detached.
get_repo_info(p) ==
    IF attached[p.dir] THEN <<Record(PathName(p), p.dir, "main")>> ELSE <<>>

-----------------------------------------------------------------------------
(* The snapshot file *)

NoRec == [name |-> "", url |-> "", branch |-> "", commit_hash |-> ""]
Key(k) == [t |-> "key", k |-> k, v |-> NoRec]
Item(r) == [t |-> "item", k |-> "", v |-> r]

Absent == [exists |-> FALSE, text |-> <<>>]
EmptyFile == [exists |-> TRUE, text |-> <<>>]

init_glores_config == [repo_info |-> <<>>, ws_status |-> <<>>]

Items(s) == [i \in 1..Len(s) |-> Item(s[i])]

\* yaml.safe_dump(config, sort_keys=False): each key, then its entries.
safe_dump(config) ==
    <<Key("repo-info")>> \o Items(config.repo_info)
    \o <<Key("ws-status")>> \o Items(config.ws_status)

RECURSIVE scan(_, _, _, _)
scan(text, i, k, acc) ==
    IF i > Len(text) THEN acc
    ELSE IF text[i].t = "key" THEN scan(text, i + 1, text[i].k, acc)
    ELSE scan(text, i + 1, k,
              IF k = "repo-info"
              THEN [acc EXCEPT !.repo_info = Append(@, text[i].v)]
              ELSE [acc EXCEPT !.ws_status = Append(@, text[i].v)])

\* yaml.safe_load of a text that is not empty.
safe_load(text) == scan(text, 1, "", init_glores_config)

read_glores_yaml(f, repo_path) ==
    IF f[repo_path.dir].exists /\ f[repo_path.dir].text # <<>>
    THEN safe_load(f[repo_path.dir].text)
    ELSE [repo_info |-> <<>>, ws_status |-> <<>>]

\* A save that opens the file for appending.
write_glores_yaml_append(f, repo_path, config) ==
    [f EXCEPT ![repo_path.dir] =
        [exists |-> TRUE, text |-> @.text \o safe_dump(config)]]

\* A save that writes the file into every repository's metadata directory.
write_glores_yaml_all(f, repo_path, config) ==
    [d \in DOMAIN f |-> [exists |-> TRUE, text |-> safe_dump(config)]]

\* open(path, 'w') and the dump, run to the end.
write_glores_yaml(f, repo_path, config) ==
    [f EXCEPT ![repo_path.dir] = [exists |-> TRUE, text |-> safe_dump(config)]]

-----------------------------------------------------------------------------
(* update *)

Line(kind, d, commit, cause) ==
    [kind |-> kind, dir |-> d, commit |-> commit, cause |-> cause]

RECURSIVE echo_errors(_, _)
\* The "Error processing repository" lines of get_repo_info, in call order.
echo_errors(paths, i) ==
    IF i > Len(paths) THEN <<>>
    ELSE (IF get_repo_info(paths[i]) = <<>>
          THEN <<Line("inspect-error", paths[i].dir, "", "TypeError")>>
          ELSE <<>>) \o echo_errors(paths, i + 1)

RECURSIVE update_loop(_, _, _)
\* for git_repo in repos: ...; acc.src lists the directories whose records
\* were appended, in step with acc.config.ws_status.
update_loop(repos, i, acc) ==
    IF i > Len(repos) THEN acc
    ELSE LET repo_info == get_repo_info(repos[i])
         IN  IF repo_info # <<>> /\ repo_info[1] \notin Range(acc.config.repo_info)
             THEN update_loop(repos, i + 1,
                     [config |-> [acc.config EXCEPT
                                     !.ws_status = Append(@, repo_info[1])],
                      src |-> Append(acc.src, repos[i].dir)])
             ELSE update_loop(repos, i + 1, acc)

NoLast == [op |-> "none", ws |-> "named", rf |-> "named", anchor |-> <<>>,
           repeat |-> FALSE, before |-> Absent, src |-> <<>>]

ArgsOk(wsForm, repoForm, a) ==
    /\ a \in git
    \* "." names one directory: both written "." means the anchor is the root
    /\ (wsForm = "dot" /\ repoForm = "dot") => a = <<>>

update(wsForm, repoForm, a) ==
    /\ nops < MaxOps
    /\ ArgsOk(wsForm, repoForm, a)
    /\ LET repo_path == MkPath(repoForm, a)
           repos == find_git_repos(wsForm, git)
           current_repo_info == get_repo_info(repo_path)
           config0 == [init_glores_config EXCEPT !.repo_info = current_repo_info]
           acc == update_loop(repos, 1, [config |-> config0, src |-> <<>>])
       IN  /\ file' = write_glores_yaml(file, repo_path, acc.config)
           /\ last' = [op |-> "update", ws |-> wsForm, rf |-> repoForm,
                       anchor |-> a,
                       repeat |-> (last.op = "update" /\ last.ws = wsForm
                                   /\ last.rf = repoForm /\ last.anchor = a),
                       before |-> file[a], src |-> acc.src]
           /\ out' = echo_errors(<<repo_path>> \o repos, 1)
                      \o <<Line("updated", a, "", "")>>
    /\ cap' = [cap EXCEPT ![a] = <<[head |-> head, attached |-> attached,
                                     ws |-> wsForm, rf |-> repoForm]>>]
    /\ result' = "ok"
    /\ nops' = nops + 1
    /\ UNCHANGED <<git, bare, head, attached, has, found, wpc, wcfg, wpos, wold, seen>>

-----------------------------------------------------------------------------
(* apply *)

RECURSIVE dict_update(_, _, _)
\* A commit index in which the first entry recorded under a name is kept.
dict_setdefault(commit_hashes, ws_status, i) ==
    LET later == {j \in 1..Len(ws_status) :
                     ws_status[j].name \notin DOMAIN commit_hashes}
        first(n) == CHOOSE j \in later : /\ ws_status[j].name = n
                                         /\ \A k \in later :
                                              ws_status[k].name = n => j <= k
    IN  [n \in DOMAIN commit_hashes \cup {ws_status[j].name : j \in later} |->
            IF n \in DOMAIN commit_hashes THEN commit_hashes[n]
            ELSE ws_status[first(n)].commit_hash]

\* for repo_status in config['ws-status']: commit_hashes.update({name: hash})
dict_update(commit_hashes, ws_status, i) ==
    IF i > Len(ws_status) THEN commit_hashes
    ELSE dict_update(
            [n \in DOMAIN commit_hashes \cup {ws_status[i].name} |->
                IF n = ws_status[i].name THEN ws_status[i].commit_hash
                ELSE commit_hashes[n]],
            ws_status, i + 1)

\* The commit index of a configuration that has an anchor entry (line 141-145).
commit_index(config) ==
    dict_update([n \in {config.repo_info[1].name} |-> config.repo_info[1].commit_hash],
                config.ws_status, 1)

RECURSIVE apply_loop(_, _, _, _)
\* for repo_path in repos: try ... except Exception: print
apply_loop(repos, i, commit_hashes, acc) ==
    IF i > Len(repos) THEN acc
    ELSE
      LET repo_path == repos[i]
          d == repo_path.dir
          repo_name == SplitName(repo_path)
      IN  IF repo_name \notin DOMAIN commit_hashes
          THEN \* KeyError, caught by the except clause
               apply_loop(repos, i + 1, commit_hashes,
                   [acc EXCEPT !.out = Append(@, Line("error", d, "", "KeyError"))])
          ELSE
            LET repo_commit_hash == commit_hashes[repo_name]
            IN  IF repo_commit_hash = ""
                THEN apply_loop(repos, i + 1, commit_hashes, acc)
                ELSE IF d \in bare
                THEN apply_loop(repos, i + 1, commit_hashes,
                        [acc EXCEPT !.out = Append(@, Line("bare", d, "", ""))])
                ELSE IF repo_commit_hash \in has[d]
                THEN \* git checkout <hash>: HEAD detached at the commit
                     apply_loop(repos, i + 1, commit_hashes,
                        [head |-> [acc.head EXCEPT ![d] = repo_commit_hash],
                         attached |-> [acc.attached EXCEPT ![d] = FALSE],
                         out |-> acc.out
                                 \o <<Line("checking-out", d, repo_commit_hash, ""),
                                      Line("success", d, repo_commit_hash, "")>>])
                ELSE \* GitCommandError, caught by the except clause
                     apply_loop(repos, i + 1, commit_hashes,
                        [acc EXCEPT !.out = @
                                 \o <<Line("checking-out", d, repo_commit_hash, ""),
                                      Line("error", d, repo_commit_hash,
                                           "GitCommandError")>>])

apply(wsForm, repoForm, a) ==
    /\ nops < MaxOps
    /\ ArgsOk(wsForm, repoForm, a)
    /\ LET repos == find_git_repos(wsForm, git)
           config == read_glores_yaml(file, MkPath(repoForm, a))
       IN  IF config.repo_info = <<>>
           THEN \* config['repo-info'][0]: list index out of range, not caught
                /\ result' = "IndexError"
                /\ out' = <<>>
                /\ UNCHANGED <<head, attached>>
           ELSE LET acc == apply_loop(repos, 1, commit_index(config),
                              [head |-> head, attached |-> attached, out |-> <<>>])
                IN  /\ result' = "ok"
                    /\ out' = acc.out
                    /\ head' = acc.head
                    /\ attached' = acc.attached
    /\ last' = [op |-> "apply", ws |-> wsForm, rf |-> repoForm, anchor |-> a,
                repeat |-> FALSE, before |-> file[a], src |-> <<>>]
    /\ nops' = nops + 1
    /\ UNCHANGED <<git, bare, has, file, cap, found, wpc, wcfg, wpos, wold, seen>>

-----------------------------------------------------------------------------
(* The user, between two commands *)

EnvLast(d) == [op |-> "user", ws |-> "named", rf |-> "named", anchor |-> d,
               repeat |-> FALSE, before |-> Absent, src |-> <<>>]

\* git checkout of a local commit, onto a branch or detached.
UserCheckout(d, c, onBranch) ==
    /\ nops < MaxOps
    /\ d \in git
    /\ c \in has[d]
    /\ head' = [head EXCEPT ![d] = c]
    /\ attached' = [attached EXCEPT ![d] = onBranch]
    /\ last' = EnvLast(d)
    /\ nops' = nops + 1
    /\ UNCHANGED <<git, bare, has, file, out, result, cap, found,
                   wpc, wcfg, wpos, wold, seen>>

\* The repository is cloned afresh, shallow, at commit c: no other commit is local.
UserReclone(d, c) ==
    /\ nops < MaxOps
    /\ d \in git
    /\ head' = [head EXCEPT ![d] = c]
    /\ attached' = [attached EXCEPT ![d] = TRUE]
    /\ has' = [has EXCEPT ![d] = {c}]
    /\ last' = EnvLast(d)
    /\ nops' = nops + 1
    /\ UNCHANGED <<git, bare, file, out, result, cap, found,
                   wpc, wcfg, wpos, wold, seen>>

-----------------------------------------------------------------------------
(* The command runs *)

Idle == /\ found = <<>>
        /\ wpc = "idle" /\ wcfg = init_glores_config /\ wpos = 0
        /\ wold = Absent /\ seen = <<>>

Init ==
    /\ git \in Layouts
    /\ bare \in {{}, {<<"B">>} \cap git}
    /\ head = [d \in git |-> "c1"]
    /\ attached = [d \in git |-> TRUE]
    /\ has = [d \in git |-> Commits]
    \* no snapshot yet: A holds an empty glores.yaml, the others none
    /\ file = [d \in git |-> IF d = <<"A">> THEN EmptyFile ELSE Absent]
    /\ out = <<>>
    /\ result = ""
    /\ last = NoLast
    /\ cap = [d \in git |-> <<>>]
    /\ nops = 0
    /\ Idle

Next ==
    \/ \E w \in Forms, r \in Forms, a \in Dirs : update(w, r, a)
    \/ \E w \in Forms, r \in Forms, a \in Dirs : apply(w, r, a)
    \/ \E d \in Dirs, c \in Commits, b \in BOOLEAN : UserCheckout(d, c, b)
    \/ \E d \in Dirs, c \in Commits : UserReclone(d, c)

Spec == Init /\ [][Next]_vars

-----------------------------------------------------------------------------
(* Discovery runs: find_git_repos over every placement of the markers *)

NoRepoState ==
    /\ bare = {}
    /\ head = [d \in git |-> "c1"]
    /\ attached = [d \in git |-> TRUE]
    /\ has = [d \in git |-> Commits]
    /\ out = <<>> /\ result = "" /\ last = NoLast
    /\ cap = [d \in git |-> <<>>]
    /\ nops = 0

InitDiscover ==
    /\ git \in SUBSET Dirs
    /\ NoRepoState
    /\ file = [d \in git |-> Absent]
    /\ Idle

Discover(wsForm) ==
    /\ last.op = "none"
    /\ found' = find_git_repos(wsForm, git)
    /\ last' = [NoLast EXCEPT !.op = "discover", !.ws = wsForm]
    /\ UNCHANGED <<git, bare, head, attached, has, file, out, result, cap, nops,
                   wpc, wcfg, wpos, wold, seen>>

NextDiscover == \E w \in Forms : Discover(w)

SpecDiscover == InitDiscover /\ [][NextDiscover]_vars

-----------------------------------------------------------------------------
(* Save runs: write_glores_yaml step by step, and a reader of the same file *)

Anchor == <<"A">>
AnchorPath == MkPath("named", Anchor)

SaveRecords == {[name |-> n, url |-> "u", branch |-> "main", commit_hash |-> c] :
                   n \in Names, c \in Commits}
SaveConfigs ==
    {[repo_info |-> ri, ws_status |-> ws] :
        ri \in {<<>>} \cup {<<r>> : r \in SaveRecords},
        ws \in UNION {[1..n -> SaveRecords] : n \in 0..MaxEntries}}

InitSave ==
    /\ git = {Anchor}
    /\ NoRepoState
    /\ wcfg \in SaveConfigs
    /\ wold \in {Absent} \cup
               {write_glores_yaml([d \in {Anchor} |-> Absent], AnchorPath, c)[Anchor] :
                   c \in SaveConfigs}
    /\ file = [d \in git |-> wold]
    /\ found = <<>> /\ wpc = "idle" /\ wpos = 0 /\ seen = <<>>

\* open(glores_yaml_path, 'w'): the file exists and is empty.
SaveOpen ==
    /\ wpc = "idle"
    /\ file' = [file EXCEPT ![Anchor] = EmptyFile]
    /\ wpc' = "open"
    /\ UNCHANGED <<git, bare, head, attached, has, out, result, last, cap, nops,
                   found, wcfg, wpos, wold, seen>>

\* yaml.safe_dump(config, f): the next piece of the document reaches the file.
SaveWrite ==
    /\ wpc = "open"
    /\ wpos < Len(safe_dump(wcfg))
    /\ file' = [file EXCEPT ![Anchor].text = Append(@, safe_dump(wcfg)[wpos + 1])]
    /\ wpos' = wpos + 1
    /\ UNCHANGED <<git, bare, head, attached, has, out, result, last, cap, nops,
                   found, wpc, wcfg, wold, seen>>

\* The with block ends: the file is closed.
SaveClose ==
    /\ wpc = "open"
    /\ wpos = Len(safe_dump(wcfg))
    /\ wpc' = "closed"
    /\ UNCHANGED <<git, bare, head, attached, has, file, out, result, last, cap,
                   nops, found, wcfg, wpos, wold, seen>>

\* Another process loads the anchor's snapshot.
Load ==
    /\ seen' = <<[at |-> wpc, pos |-> wpos,
                  config |-> read_glores_yaml(file, AnchorPath)]>>
    /\ UNCHANGED <<git, bare, head, attached, has, file, out, result, last, cap,
                   nops, found, wpc, wcfg, wpos, wold>>

NextSave == SaveOpen \/ SaveWrite \/ SaveClose \/ Load

SpecSave == InitSave /\ [][NextSave]_vars

-----------------------------------------------------------------------------
(* What the properties below speak about *)

LastPath == MkPath(last.rf, last.anchor)
LastRepos == find_git_repos(last.ws, git)
Discovered == {LastRepos[i].dir : i \in 1..Len(LastRepos)}
\* The snapshot the last command loaded or wrote.
Loaded == read_glores_yaml(file, LastPath)
Lines(kind) == {i \in 1..Len(out) : out[i].kind = kind}
IssuedCheckout(d, c) ==
    \E i \in Lines("checking-out") : out[i].dir = d /\ out[i].commit = c
IssuedTo(d) == \E i \in Lines("checking-out") : out[i].dir = d
ErrorDirs == {out[i].dir : i \in Lines("error")}
IsPrefix(e, d) == Len(e) < Len(d) /\ SubSeq(d, 1, Len(e)) = e
DistinctNames == \A d, e \in git : d # e => RealName(d) # RealName(e)
NoAnchorEntry == Loaded.repo_info = <<>>

\* C1: restore against a snapshot with no anchor entry ends in NoSnapshotError
\* and issues no checkout.
C1_NoSnapshotError ==
    (last.op = "apply" /\ NoAnchorEntry)
        => (result = "NoSnapshotError" /\ \A d \in git : ~IssuedTo(d))

\* The part of C1 the code keeps: no checkout is issued and nothing is moved.
C1_ZeroCheckouts ==
    (last.op = "apply" /\ NoAnchorEntry) => (out = <<>> /\ result # "ok")

\* C2: with distinct names, every repository inspected at capture and every
\* recorded commit still local, restore of the captured file (same command
\* line) leaves every repository at the commit it had at capture.
C2_RoundTrip ==
    (/\ last.op = "apply"
     /\ cap[last.anchor] # <<>>
     /\ cap[last.anchor][1].ws = last.ws /\ cap[last.anchor][1].rf = last.rf
     /\ DistinctNames
     /\ bare = {}
     /\ \A d \in git : cap[last.anchor][1].attached[d]
     /\ \A d \in git : cap[last.anchor][1].head[d] \in has[d])
        => \A d \in git : head[d] = cap[last.anchor][1].head[d]

\* The part of C2 the code keeps: the same, when the workspace root is not
\* both a repository and written ".".
C2_RoundTripNamed ==
    (/\ last.op = "apply"
     /\ cap[last.anchor] # <<>>
     /\ ~(<<>> \in git /\ (last.ws = "dot" \/ cap[last.anchor][1].ws = "dot"))
     /\ DistinctNames
     /\ bare = {}
     /\ \A d \in git : cap[last.anchor][1].attached[d]
     /\ \A d \in git : cap[last.anchor][1].head[d] \in has[d])
        => \A d \in git : head[d] = cap[last.anchor][1].head[d]

\* C3: a failing checkout aborts nothing: every discovered, non-bare repository
\* whose name is in the commit index is issued a checkout of its recorded
\* commit, and the repositories reported as errors are exactly those whose
\* checkout failed.  (Stated for a capture and a restore whose command lines
\* write no path as ".".)
C3_FailureIsolation ==
    (/\ last.op = "apply" /\ result = "ok"
     /\ last.ws = "named" /\ last.rf = "named"
     /\ cap[last.anchor] # <<>>
     /\ cap[last.anchor][1].ws = "named" /\ cap[last.anchor][1].rf = "named")
        => LET idx == commit_index(Loaded)
               indexed == {i \in 1..Len(LastRepos) :
                             /\ LastRepos[i].dir \notin bare
                             /\ SplitName(LastRepos[i]) \in DOMAIN idx}
               failing == {LastRepos[i].dir : i \in
                             {j \in indexed :
                                 idx[SplitName(LastRepos[j])]
                                     \notin has[LastRepos[j].dir]}}
           IN  /\ \A i \in indexed :
                     IssuedCheckout(LastRepos[i].dir, idx[SplitName(LastRepos[i])])
               /\ ErrorDirs = failing

\* The part of C3 the code keeps: every indexed repository is issued its checkout.
C3_AllIssued ==
    (last.op = "apply" /\ result = "ok")
        => LET idx == commit_index(Loaded)
           IN  \A i \in 1..Len(LastRepos) :
                  (LastRepos[i].dir \notin bare
                      /\ SplitName(LastRepos[i]) \in DOMAIN idx)
                  => IssuedCheckout(LastRepos[i].dir, idx[SplitName(LastRepos[i])])

\* C4: after capture, when the anchor is among the discovered repositories, no
\* ws-status entry was made from the anchor.
C4_AnchorExcluded ==
    (last.op = "update" /\ last.anchor \in Discovered)
        => last.anchor \notin Range(last.src)

\* The part of C4 the code keeps: the same, when the anchor's path and the path
\* the walk gives the anchor spell the same name.
C4_AnchorExcludedSameName ==
    (/\ last.op = "update" /\ last.anchor \in Discovered
     /\ PathName(LastPath) = PathName(WalkPath(last.ws, last.anchor)))
        => last.anchor \notin Range(last.src)

\* C5: capture run twice in a row leaves the file the first run left, and the
\* file written holds one fresh document: nothing of a former file remains.
C5_Idempotent ==
    (last.op = "update")
        => /\ last.repeat => file[last.anchor] = last.before
           /\ file[last.anchor].exists
           /\ file[last.anchor].text = safe_dump(Loaded)
           /\ Len(Loaded.repo_info) <= 1
           /\ Len(Loaded.ws_status) <= Len(LastRepos)

C5_Witness ==
    /\ last.op = "update" /\ last.repeat
    /\ last.before.exists
    /\ Len(Loaded.ws_status) >= 1 /\ Len(Loaded.repo_info) = 1

\* The identity a repository shows when its HEAD is on a branch.
IdentityOf(p) == [name |-> PathName(p), url |-> Url(p.dir), branch |-> "main",
                  commit_hash |-> head[p.dir]]
Kept(p) == /\ attached[p.dir]
           /\ attached[last.anchor] => IdentityOf(p) # IdentityOf(LastPath)
RECURSIVE KeptRecords(_, _)
KeptRecords(repos, i) ==
    IF i > Len(repos) THEN <<>>
    ELSE (IF Kept(repos[i]) THEN <<IdentityOf(repos[i])>> ELSE <<>>)
         \o KeptRecords(repos, i + 1)

\* C8: capture writes the snapshot whatever fails, and ws-status is, in
\* discovery order, the records of the discovered repositories whose HEAD is
\* on a branch and whose record differs from the anchor's.
C8_SkipFailedInspection ==
    (last.op = "update")
        => /\ file[last.anchor].exists
           /\ file[last.anchor].text # <<>>
           /\ Loaded.ws_status = KeptRecords(LastRepos, 1)
           /\ Loaded.repo_info = (IF attached[last.anchor]
                                  THEN <<IdentityOf(LastPath)>> ELSE <<>>)

C8_Witness ==
    /\ last.op = "update"
    /\ \E d \in Discovered : ~attached[d]
    /\ \E i \in 1..Len(LastRepos) :
          /\ ~attached[LastRepos[i].dir]
          /\ \E j \in 1..Len(LastRepos) : j > i /\ Kept(LastRepos[j])
    /\ Len(Loaded.ws_status) >= 1

\* C9: a capture step changes the anchor's snapshot file and nothing else: no
\* HEAD, no branch, no commit store, no other repository's snapshot file.
C9_CaptureFrame ==
    [][(last'.op = "update" /\ nops' = nops + 1)
          => /\ head' = head /\ attached' = attached /\ has' = has
             /\ git' = git /\ bare' = bare
             /\ \A d \in git : d # last'.anchor => file'[d] = file[d]]_vars

C9_Witness ==
    /\ last.op = "update"
    /\ \E d \in Discovered : ~attached[d]
    /\ \E d \in git : d # last.anchor /\ file[d].exists /\ file[d].text # <<>>
    /\ file[last.anchor] # last.before

AnchorTarget ==
    LET ws == Loaded.ws_status
        same == {j \in 1..Len(ws) : ws[j].name = Loaded.repo_info[1].name}
    IN  IF same = {} THEN Loaded.repo_info[1].commit_hash
        ELSE ws[CHOOSE j \in same : \A k \in same : k <= j].commit_hash

-----------------------------------------------------------------------------
(* Discovery *)

FoundDirs == {found[i].dir : i \in 1..Len(found)}

\* C7 as stated: the result is exactly the directories with a marker that lie
\* below no other returned root.
C7_NoNestedRoots ==
    (last.op = "discover")
        => FoundDirs = {d \in git : \A e \in FoundDirs : ~IsPrefix(e, d)}

\* C7 amended: the result is exactly the directories that directly contain a
\* marker, each once, a directory before the directories below it, whether or
\* not one lies inside another returned root.
C7_AllMarked ==
    (last.op = "discover")
        => /\ FoundDirs = git
           /\ Len(found) = Cardinality(git)
           /\ \A i, j \in 1..Len(found) :
                 IsPrefix(found[i].dir, found[j].dir) => i < j
           /\ \A i \in 1..Len(found) :
                 found[i].form = (IF found[i].dir = <<>> THEN last.ws ELSE "named")

C7_Witness ==
    /\ last.op = "discover"
    /\ \E i, j \in 1..Len(found) : IsPrefix(found[i].dir, found[j].dir)
    /\ \E d \in Dirs \ git : \E e \in git : IsPrefix(d, e)
    /\ \E d \in git : Len(d) = MaxDepth

-----------------------------------------------------------------------------
(* Save *)

\* C6: whatever step the save is at, a load returns the whole former snapshot
\* or the whole new one.
C6_AtomicSave ==
    seen # <<>>
        => seen[1].config \in
              {read_glores_yaml([d \in git |-> wold], AnchorPath), wcfg}

\* Once the file is closed, a load returns what was saved.
C6_RoundTrip ==
    (wpc = "closed")
        => /\ read_glores_yaml(file, AnchorPath) = wcfg
           /\ file = write_glores_yaml([d \in git |-> wold], AnchorPath, wcfg)

====
